---- MODULE Spec2Model ----
(***************************************************************************)
(* Model of sumOfNElements.cpp: a SYCL tree reduction that sums an array   *)
(* of N ints in place in a device buffer.                                   *)
(*                                                                          *)
(* The host (main) builds the buffer from arr, computes the number of      *)
(* work-groups, submits ONE nd_range kernel, waits for it, stores the      *)
(* group count into iterationCount and prints input_buf[0].                *)
(*                                                                          *)
(* The kernel is modelled per work-item: pair-load into local memory,      *)
(* barrier, strided in-group tree with a barrier after each stride, and    *)
(* the write-back by local id 0.  Work-items of one group synchronise only *)
(* at barriers; work-groups are not ordered against each other.            *)
(*                                                                          *)
(* N (line 34) and work_group_size (line 65) are compile-time parameters   *)
(* of the source; the model draws them, and the array contents, from small *)
(* sets.  int is modelled with IntWidth bits and two's-complement          *)
(* wraparound (what the device build produces for int addition).  A read   *)
(* of the accessor past the end of the buffer is undefined behaviour and   *)
(* yields any value of OobVals.                                            *)
(***************************************************************************)
EXTENDS Integers, Sequences, FiniteSets, TLC

\* ---------------------------------------------------------------- bounds
MaxN == 5
MaxLogG == 2
IntWidth == 8

RECURSIVE Pow2(_)
Pow2(k) == IF k = 0 THEN 1 ELSE 2 * Pow2(k - 1)

MaxInt == Pow2(IntWidth - 1) - 1
MinInt == 0 - Pow2(IntWidth - 1)

\* values the array elements are drawn from
Vals == {0 - 2, 1, MaxInt}
\* values an out-of-bounds read of the buffer may produce
OobVals == {0, 1}
\* the content of a local_mem cell nothing has been stored in (line 80): a
\* mark outside the range of int
Uninit == MinInt - 1
\* admissible (power-of-two) work-group sizes
GroupSizes == {Pow2(k) : k \in 0..MaxLogG}

\* ------------------------------------------------------------ arithmetic
\* two's-complement reduction of an integer to IntWidth bits
Wrap(x) == ((x - MinInt) % Pow2(IntWidth)) + MinInt

\* int + int as line 97 / 105 compute it
IntAdd(a, b) == Wrap(a + b)

\* ----------------------------------------------------------------- state
VARIABLES
    N,                 \* line 34: number of elements
    work_group_size,   \* line 65: G
    arr,               \* line 37: the host array, 0-based
    input_buf,         \* line 62: the device buffer, 0-based
    iterationCount,    \* line 70: active prefix length L
    work_group_count,  \* line 74: W (0 before it is computed)
    pc,                \* position of the host in main
    ipc,               \* position of every work-item, by global id
    loop_i,            \* line 102: every work-item's loop variable i
    local_mem,         \* line 80: local memory, by group and local id
    result,            \* line 128: the value printed ("none" before)
    launches,          \* history: iterationCount at every kernel launch
    buf0,              \* history: input_buf at the last launch
    readIdx,           \* history: buffer indices read in the sweep
    written,           \* history: buffer indices written in the sweep
    staleReads,        \* history: indices read after being written in the sweep
    run,               \* 1 in the first execution, 2 in a re-execution
    prevG,             \* work_group_size of the first execution
    prevResult,        \* result of the first execution
    failed,            \* history: Q.submit or Q.wait_and_throw threw
    writeLog,          \* history: <<group, local id, index>> of buffer writes
    scratch0,          \* history: each group's local_mem after its pair-load
    accLog,            \* history: per group, <<local id, cell, "r"|"w">> of the
                       \* local_mem accesses since the group's last barrier
    barriers           \* history: barriers every work-item has passed

vars == <<N, work_group_size, arr, input_buf, iterationCount, work_group_count,
          pc, ipc, loop_i, local_mem, result, launches, buf0, readIdx, written,
          staleReads, run, prevG, prevResult, failed, writeLog, scratch0,
          accLog, barriers>>

logVars == <<failed, writeLog, scratch0, accLog, barriers>>

hostVars == <<N, work_group_size, arr, iterationCount, work_group_count, pc,
              result, launches, buf0, run, prevG, prevResult>>

\* ------------------------------------------------------------ work-items
\* the global ids of the launched nd_range (line 85)
Items == DOMAIN ipc

\* item.get_local_linear_id(), line 88
LocalId(g) == g % work_group_size

\* item.get_group_linear_id(), line 113
GroupId(g) == g \div work_group_size

GroupItems(w) == {g \in Items : GroupId(g) = w}

\* line 74: (iterationCount + 2G - 1) / 2G
GroupCount(L, G) == (L + 2 * G - 1) \div (2 * G)

\* the values a read of global_mem[idx] can yield
BufRead(idx) == IF idx \in DOMAIN input_buf THEN {input_buf[idx]} ELSE OobVals

\* the values a read of local_mem[idx] in group w can yield: a cell outside
\* the accessor's range or never written holds anything
ScratchRead(w, idx) ==
    IF idx \in DOMAIN local_mem[w] /\ local_mem[w][idx] # Uninit
    THEN {local_mem[w][idx]}
    ELSE OobVals

\* --------------------------------------------------------------- initial
Init ==
    /\ N \in 1..MaxN
    /\ work_group_size \in GroupSizes
    /\ arr \in [0..(N - 1) -> Vals]
    /\ input_buf = arr
    /\ iterationCount = N
    /\ work_group_count = 0
    /\ pc = "submit"
    /\ ipc = <<>>
    /\ loop_i = <<>>
    /\ local_mem = <<>>
    /\ result = "none"
    /\ launches = <<>>
    /\ buf0 = arr
    /\ readIdx = {}
    /\ written = {}
    /\ staleReads = {}
    /\ run = 1
    /\ prevG = 0
    /\ prevResult = "none"
    /\ failed = FALSE
    /\ writeLog = {}
    /\ scratch0 = <<>>
    /\ accLog = <<>>
    /\ barriers = <<>>

\* ------------------------------------------------------------------ host
\* lines 74-85: compute the group count and launch W*G work-items
Submit ==
    /\ pc = "submit"
    /\ LET W == GroupCount(iterationCount, work_group_size) IN
        /\ work_group_count' = W
        /\ ipc' = [g \in 0..(W * work_group_size - 1) |-> "load"]
        /\ loop_i' = [g \in 0..(W * work_group_size - 1) |-> 0]
        /\ local_mem' = [w \in 0..(W - 1) |->
                            [l \in 0..(work_group_size - 1) |-> Uninit]]
    /\ pc' = "wait"
    /\ launches' = Append(launches, iterationCount)
    /\ buf0' = input_buf
    /\ readIdx' = {}
    /\ written' = {}
    /\ staleReads' = {}
    /\ writeLog' = {}
    /\ scratch0' = <<>>
    /\ accLog' = [w \in 0..(GroupCount(iterationCount, work_group_size) - 1) |-> {}]
    /\ barriers' = [g \in 0..(GroupCount(iterationCount, work_group_size)
                                  * work_group_size - 1) |-> 0]
    /\ UNCHANGED <<N, work_group_size, arr, input_buf, iterationCount, result,
                   run, prevG, prevResult, failed>>

\* line 76: Q.submit throws; main has no handler, the program terminates
SubmitFail ==
    /\ pc = "submit"
    /\ pc' = "aborted"
    /\ failed' = TRUE
    /\ UNCHANGED <<N, work_group_size, arr, input_buf, iterationCount,
                   work_group_count, ipc, loop_i, local_mem, result, launches,
                   buf0, readIdx, written, staleReads, run, prevG, prevResult,
                   writeLog, scratch0, accLog, barriers>>

\* a plausible bug: the error is caught and main carries on
WaitFailSwallowed ==
    /\ pc = "wait"
    /\ pc' = "update"
    /\ failed' = TRUE
    /\ UNCHANGED <<N, work_group_size, arr, input_buf, iterationCount,
                   work_group_count, ipc, loop_i, local_mem, result, launches,
                   buf0, readIdx, written, staleReads, run, prevG, prevResult,
                   writeLog, scratch0, accLog, barriers>>

\* line 119: Q.wait_and_throw reports a device error at any point of the
\* sweep; the exception is not caught, the program terminates and the
\* kernel goes with it
WaitFail ==
    /\ pc = "wait"
    /\ pc' = "aborted"
    /\ failed' = TRUE
    /\ ipc' = <<>>
    /\ UNCHANGED <<N, work_group_size, arr, input_buf, iterationCount,
                   work_group_count, loop_i, local_mem, result, launches,
                   buf0, readIdx, written, staleReads, run, prevG, prevResult,
                   writeLog, scratch0, accLog, barriers>>

\* a plausible bug: the wait left out, main goes on while the sweep runs
WaitAndThrowNoWait ==
    /\ pc = "wait"
    /\ pc' = "update"
    /\ UNCHANGED <<N, work_group_size, arr, input_buf, iterationCount,
                   work_group_count, ipc, loop_i, local_mem, result, launches,
                   buf0, readIdx, written, staleReads, run, prevG, prevResult>>
    /\ UNCHANGED logVars

\* line 119: Q.wait_and_throw() returns once every work-item has finished
WaitAndThrow ==
    /\ pc = "wait"
    /\ \A g \in Items : ipc[g] = "done"
    /\ pc' = "update"
    /\ UNCHANGED <<N, work_group_size, arr, input_buf, iterationCount,
                   work_group_count, ipc, loop_i, local_mem, result, launches,
                   buf0, readIdx, written, staleReads, run, prevG, prevResult>>
    /\ UNCHANGED logVars

\* line 122: iterationCount = work_group_count (no loop follows)
UpdateCount ==
    /\ pc = "update"
    /\ iterationCount' = work_group_count
    /\ pc' = "read"
    /\ UNCHANGED <<N, work_group_size, arr, input_buf, work_group_count, ipc,
                   loop_i, local_mem, result, launches, buf0, readIdx, written,
                   staleReads, run, prevG, prevResult>>
    /\ UNCHANGED logVars

\* lines 126-128: host accessor, print result[0]
ReadResult ==
    /\ pc = "read"
    /\ result' = input_buf[0]
    /\ pc' = "done"
    /\ UNCHANGED <<N, work_group_size, arr, input_buf, iterationCount,
                   work_group_count, ipc, loop_i, local_mem, launches, buf0,
                   readIdx, written, staleReads, run, prevG, prevResult>>
    /\ UNCHANGED logVars

\* ---------------------------------------------------------------- kernel
\* lines 93-98: local_mem[l] = 0; if 2g < iterationCount, load the pair
PairLoad(g) ==
    /\ ipc[g] = "load"
    /\ LET w == GroupId(g)
           l == LocalId(g)
       IN /\ IF 2 * g < iterationCount
             THEN /\ \E a \in BufRead(2 * g) : \E b \in BufRead(2 * g + 1) :
                       local_mem' = [local_mem EXCEPT ![w][l] = IntAdd(a, b)]
                  /\ readIdx' = readIdx \cup {2 * g, 2 * g + 1}
                  /\ staleReads' = staleReads \cup ({2 * g, 2 * g + 1} \cap written)
             ELSE /\ local_mem' = [local_mem EXCEPT ![w][l] = 0]
                  /\ UNCHANGED <<readIdx, staleReads>>
          /\ accLog' = [accLog EXCEPT ![w] = @ \cup {<<l, l, "w">>}]
    /\ ipc' = [ipc EXCEPT ![g] = "barrier"]
    /\ UNCHANGED <<input_buf, loop_i, written, failed, writeLog, scratch0, barriers>>
    /\ UNCHANGED hostVars

\* a plausible bug: i <= work_group_size in the loop test
AfterBarrierOffByOne(i) == IF i <= work_group_size THEN "stride" ELSE "write"

\* the position of a work-item after a barrier: the loop test of line 102
AfterBarrier(i) == IF i < work_group_size THEN "stride" ELSE "write"

\* the loop variable after a barrier: i = 1 at line 102, i *= 2 afterwards
NextI(i) == IF i = 0 THEN 1 ELSE 2 * i

\* lines 100 and 108: item.barrier releases the group once all have arrived
Barrier(w) ==
    /\ GroupItems(w) # {}
    /\ \A g \in GroupItems(w) : ipc[g] = "barrier"
    /\ loop_i' = [g \in Items |->
                     IF GroupId(g) = w THEN NextI(loop_i[g]) ELSE loop_i[g]]
    /\ ipc' = [g \in Items |->
                  IF GroupId(g) = w THEN AfterBarrier(NextI(loop_i[g])) ELSE ipc[g]]
    /\ barriers' = [g \in Items |->
                       IF GroupId(g) = w THEN barriers[g] + 1 ELSE barriers[g]]
    /\ accLog' = [accLog EXCEPT ![w] = {}]
    /\ scratch0' = IF w \in DOMAIN scratch0 THEN scratch0
                   ELSE [v \in DOMAIN scratch0 \cup {w} |->
                            IF v = w THEN local_mem[w] ELSE scratch0[v]]
    /\ UNCHANGED <<input_buf, local_mem, readIdx, written, staleReads, failed,
                   writeLog>>
    /\ UNCHANGED hostVars

\* a plausible bug: index = i * l, the factor 2 forgotten
StrideDenseIndex(g) ==
    /\ ipc[g] = "stride"
    /\ LET w == GroupId(g)
           i == loop_i[g]
           index == i * LocalId(g)
       IN IF index < work_group_size
          THEN /\ \E a \in ScratchRead(w, index) : \E b \in ScratchRead(w, index + i) :
                    local_mem' = [local_mem EXCEPT ![w][index] = IntAdd(a, b)]
               /\ accLog' = [accLog EXCEPT ![w] = @ \cup
                                {<<LocalId(g), index, "r">>,
                                 <<LocalId(g), index + i, "r">>,
                                 <<LocalId(g), index, "w">>}]
          ELSE UNCHANGED <<local_mem, accLog>>
    /\ ipc' = [ipc EXCEPT ![g] = "barrier"]
    /\ UNCHANGED <<input_buf, loop_i, readIdx, written, staleReads, failed,
                   writeLog, scratch0, barriers>>
    /\ UNCHANGED hostVars

\* a plausible bug: the barrier of line 108 placed inside the if of line 104,
\* so a work-item with index >= G goes on to the next stride without it
StrideBarrierInsideIf(g) ==
    /\ ipc[g] = "stride"
    /\ LET w == GroupId(g)
           i == loop_i[g]
           index == 2 * i * LocalId(g)
       IN IF index < work_group_size
          THEN /\ \E a \in ScratchRead(w, index) : \E b \in ScratchRead(w, index + i) :
                    local_mem' = [local_mem EXCEPT ![w][index] = IntAdd(a, b)]
               /\ accLog' = [accLog EXCEPT ![w] = @ \cup
                                {<<LocalId(g), index, "r">>,
                                 <<LocalId(g), index + i, "r">>,
                                 <<LocalId(g), index, "w">>}]
               /\ ipc' = [ipc EXCEPT ![g] = "barrier"]
               /\ UNCHANGED loop_i
          ELSE /\ UNCHANGED <<local_mem, accLog>>
               /\ loop_i' = [loop_i EXCEPT ![g] = 2 * i]
               /\ ipc' = [ipc EXCEPT ![g] = AfterBarrier(2 * i)]
    /\ UNCHANGED <<input_buf, readIdx, written, staleReads, failed,
                   writeLog, scratch0, barriers>>
    /\ UNCHANGED hostVars

\* a plausible bug: the neighbour index + 1 added at every stride
StrideFixedNeighbour(g) ==
    /\ ipc[g] = "stride"
    /\ LET w == GroupId(g)
           i == loop_i[g]
           index == 2 * i * LocalId(g)
       IN IF index < work_group_size
          THEN /\ \E a \in ScratchRead(w, index) : \E b \in ScratchRead(w, index + 1) :
                    local_mem' = [local_mem EXCEPT ![w][index] = IntAdd(a, b)]
               /\ accLog' = [accLog EXCEPT ![w] = @ \cup
                                {<<LocalId(g), index, "r">>,
                                 <<LocalId(g), index + 1, "r">>,
                                 <<LocalId(g), index, "w">>}]
          ELSE UNCHANGED <<local_mem, accLog>>
    /\ ipc' = [ipc EXCEPT ![g] = "barrier"]
    /\ UNCHANGED <<input_buf, loop_i, readIdx, written, staleReads, failed,
                   writeLog, scratch0, barriers>>
    /\ UNCHANGED hostVars

\* lines 103-106: index = 2*i*l; if index < G, S[index] += S[index + i]
Stride(g) ==
    /\ ipc[g] = "stride"
    /\ LET w == GroupId(g)
           i == loop_i[g]
           index == 2 * i * LocalId(g)
       IN IF index < work_group_size
          THEN /\ \E a \in ScratchRead(w, index) : \E b \in ScratchRead(w, index + i) :
                    local_mem' = [local_mem EXCEPT ![w][index] = IntAdd(a, b)]
               /\ accLog' = [accLog EXCEPT ![w] = @ \cup
                                {<<LocalId(g), index, "r">>,
                                 <<LocalId(g), index + i, "r">>,
                                 <<LocalId(g), index, "w">>}]
          ELSE UNCHANGED <<local_mem, accLog>>
    /\ ipc' = [ipc EXCEPT ![g] = "barrier"]
    /\ UNCHANGED <<input_buf, loop_i, readIdx, written, staleReads, failed,
                   writeLog, scratch0, barriers>>
    /\ UNCHANGED hostVars

\* a plausible bug: the test local_id == 0 of line 112 left out
WriteBackEveryItem(g) ==
    /\ ipc[g] = "write"
    /\ \E v \in ScratchRead(GroupId(g), 0) :
            input_buf' = [input_buf EXCEPT ![GroupId(g)] = v]
    /\ written' = written \cup {GroupId(g)}
    /\ writeLog' = writeLog \cup {<<GroupId(g), LocalId(g), GroupId(g)>>}
    /\ accLog' = [accLog EXCEPT ![GroupId(g)] = @ \cup {<<LocalId(g), 0, "r">>}]
    /\ ipc' = [ipc EXCEPT ![g] = "done"]
    /\ UNCHANGED <<loop_i, local_mem, readIdx, staleReads, failed, scratch0, barriers>>
    /\ UNCHANGED hostVars

\* a plausible bug: global_mem[global id] written instead of [group id]
WriteBackAtGlobalId(g) ==
    /\ ipc[g] = "write"
    /\ IF LocalId(g) = 0
       THEN /\ \E v \in ScratchRead(GroupId(g), 0) :
                    input_buf' = [input_buf EXCEPT ![g] = v]
            /\ written' = written \cup {g}
            /\ writeLog' = writeLog \cup {<<GroupId(g), LocalId(g), g>>}
            /\ accLog' = [accLog EXCEPT ![GroupId(g)] = @ \cup {<<0, 0, "r">>}]
       ELSE UNCHANGED <<input_buf, written, writeLog, accLog>>
    /\ ipc' = [ipc EXCEPT ![g] = "done"]
    /\ UNCHANGED <<loop_i, local_mem, readIdx, staleReads, failed, scratch0, barriers>>
    /\ UNCHANGED hostVars

\* lines 112-114: local id 0 writes local_mem[0] to global_mem[group id]
WriteBack(g) ==
    /\ ipc[g] = "write"
    /\ IF LocalId(g) = 0
       THEN /\ \E v \in ScratchRead(GroupId(g), 0) :
                    input_buf' = [input_buf EXCEPT ![GroupId(g)] = v]
            /\ written' = written \cup {GroupId(g)}
            /\ writeLog' = writeLog \cup {<<GroupId(g), LocalId(g), GroupId(g)>>}
            /\ accLog' = [accLog EXCEPT ![GroupId(g)] = @ \cup {<<0, 0, "r">>}]
       ELSE UNCHANGED <<input_buf, written, writeLog, accLog>>
    /\ ipc' = [ipc EXCEPT ![g] = "done"]
    /\ UNCHANGED <<loop_i, local_mem, readIdx, staleReads, failed, scratch0, barriers>>
    /\ UNCHANGED hostVars

\* ------------------------------------------------------------ re-execution
\* main executed again on the same array with another work_group_size
\* (line 65); everything else starts over as in lines 62-70
Rerun ==
    /\ pc = "done"
    /\ run = 1
    /\ \E G2 \in GroupSizes \ {work_group_size} : work_group_size' = G2
    /\ run' = 2
    /\ prevG' = work_group_size
    /\ prevResult' = result
    /\ input_buf' = arr
    /\ iterationCount' = N
    /\ work_group_count' = 0
    /\ pc' = "submit"
    /\ ipc' = <<>>
    /\ loop_i' = <<>>
    /\ local_mem' = <<>>
    /\ result' = "none"
    /\ launches' = <<>>
    /\ buf0' = arr
    /\ readIdx' = {}
    /\ written' = {}
    /\ staleReads' = {}
    /\ writeLog' = {}
    /\ scratch0' = <<>>
    /\ accLog' = <<>>
    /\ barriers' = <<>>
    /\ UNCHANGED <<N, arr, failed>>

\* ------------------------------------------------------- specifications
Next ==
    \/ Submit
    \/ SubmitFail
    \/ WaitAndThrow
    \/ WaitFail
    \/ UpdateCount
    \/ ReadResult
    \/ \E g \in Items : PairLoad(g)
    \/ \E w \in 0..(work_group_count - 1) : Barrier(w)
    \/ \E g \in Items : Stride(g)
    \/ \E g \in Items : WriteBack(g)

Spec == Init /\ [][Next]_vars

\* the host runs on and the device schedules every work-item: some enabled
\* step is eventually taken
FairSpec == Spec /\ WF_vars(Next)

\* two executions of main on the same array
NextRerun == Next \/ Rerun

SpecRerun == Init /\ [][NextRerun]_vars

\* ---------------------------------------------------------------- claims
\* reference: the mathematical (unbounded) sum of f[lo..hi-1]
RECURSIVE MathSum(_, _, _)
MathSum(f, lo, hi) == IF lo >= hi THEN 0 ELSE f[lo] + MathSum(f, lo + 1, hi)

\* reference: the sequential int sum of f[lo..hi-1], left to right
RECURSIVE IntSum(_, _, _)
IntSum(f, lo, hi) == IF lo >= hi THEN 0 ELSE IntAdd(f[lo], IntSum(f, lo + 1, hi))

\* the active prefix length of the sweep in progress (or last completed)
LaunchL == launches[Len(launches)]

\* C1: when the host has read the result, it equals the int sum of all N
\* elements of arr, for every N, every work-group size and every interleaving.
C1_ResultIsSum ==
    pc = "done" => result = IntSum(arr, 0, N)

\* C2: the host reads input_buf[0] only when the active prefix length has
\* reached 1, and for N > 2G more than one sweep was launched before the read.
C2_ReadOnlyWhenConverged ==
    pc = "done" =>
        /\ iterationCount = 1
        /\ (N > 2 * work_group_size => Len(launches) > 1)

\* C3: between sweeps (before the first launch, and once a completed sweep has
\* set the prefix length to the group count) the active prefix of the buffer
\* sums to the sum of arr.
C3_PrefixSumPreserved ==
    pc \in {"submit", "read", "done"} =>
        IntSum(input_buf, 0, iterationCount) = IntSum(arr, 0, N)

\* C4: within a sweep no work-item reads a buffer index that some work-group
\* has already overwritten by its write-back in that sweep.
C4_NoReadOfOverwritten ==
    staleReads = {}

\* C5: during a sweep every buffer index read or written lies in [0, L), L the
\* prefix length the sweep was launched with.
C5_AccessWithinPrefix ==
    launches # <<>> => (readIdx \cup written) \subseteq 0..(LaunchL - 1)

\* the scratch value the pair-load of work-item g must produce from the
\* buffer as it was when the sweep was launched
PairLoadExpected(g) ==
    IF 2 * g + 1 < LaunchL THEN IntAdd(buf0[2 * g], buf0[2 * g + 1])
    ELSE IF 2 * g = LaunchL - 1 THEN buf0[2 * g]
    ELSE 0

\* C6: after its pair-load (waiting at the barrier of line 100) work-item g
\* holds B[2g] + B[2g+1] if 2g+1 < L, B[2g] alone if 2g = L-1, and 0 if 2g >= L.
C6_PairLoadValue ==
    \A g \in Items :
        (ipc[g] = "barrier" /\ loop_i[g] = 0) =>
            local_mem[GroupId(g)][LocalId(g)] = PairLoadExpected(g)

\* C7: no kernel is launched with an active prefix length of 1, and with N = 1
\* the buffer is never changed.
C7_NoLaunchAtLengthOne ==
    /\ \A k \in 1..Len(launches) : launches[k] # 1
    /\ (N = 1 => input_buf = arr)

\* C8: for a one-element array [x] the result read is x.
C8_SingleElementIdentity ==
    (N = 1 /\ pc = "done") => result = arr[0]

\* C9: a second execution on the same array with a different work-group size
\* reads the same result as the first.
C9_SameResultForEveryG ==
    (run = 2 /\ pc = "done") => result = prevResult

\* C10: the result read equals the mathematical sum of the elements reduced
\* modulo 2^IntWidth into the two's-complement range.
C10_ResultIsSumModWidth ==
    pc = "done" => result = Wrap(MathSum(arr, 0, N))

\* C11: once Q.submit or Q.wait_and_throw has failed, the program is in its
\* error state and no result has been or will be read from the buffer.
C11_NoResultAfterFailure ==
    failed => (pc = "aborted" /\ result = "none")

\* a failure reported after part of the sweep has already written the buffer
C11_Witness ==
    failed /\ pc = "aborted" /\ written # {} /\ input_buf # arr

\* C12: every buffer write of a sweep is made by local id 0 of a group at the
\* index equal to its group id, so distinct groups write distinct indices.
C12_WriteOnlyOwnIndex ==
    /\ \A r \in writeLog : r[2] = 0 /\ r[3] = r[1]
    /\ \A r1, r2 \in writeLog : r1[1] # r2[1] => r1[3] # r2[3]

\* two distinct groups have written back
C12_Witness ==
    \E r1, r2 \in writeLog : r1[1] # r2[1]

\* every work-item of group w is past the stride loop
GroupFinishedTree(w) ==
    /\ GroupItems(w) # {}
    /\ \A g \in GroupItems(w) : ipc[g] \in {"write", "done"}

\* C13: once a group has left the stride loop, its local_mem[0] is the int sum
\* of the G values its work-items pair-loaded.
C13_TreeSumsScratch ==
    \A w \in DOMAIN scratch0 :
        GroupFinishedTree(w) =>
            local_mem[w][0] = IntSum(scratch0[w], 0, work_group_size)

\* a group of four has finished the tree over three non-zero pair-loads
C13_Witness ==
    /\ work_group_size = 4
    /\ 0 \in DOMAIN scratch0
    /\ GroupFinishedTree(0)
    /\ \A l \in 0..2 : scratch0[0][l] # 0

\* the largest power of two dividing c > 0
RECURSIVE LowBit(_)
LowBit(c) == IF c % 2 = 1 THEN 1 ELSE 2 * LowBit(c \div 2)

\* the number of pair-loaded values cell c has gathered after stride i
Gathered(c, i) ==
    IF c = 0 THEN 2 * i
    ELSE IF LowBit(c) < 2 * i THEN LowBit(c) ELSE 2 * i

\* C14: between two barriers no local_mem cell is written by one work-item and
\* read or written by another, and at the barrier after stride i every cell
\* holds the same value whatever the interleaving was: the sum of the
\* pair-loaded values it has gathered so far.
C14_NoScratchRace ==
    /\ \A w \in DOMAIN accLog : \A a, b \in accLog[w] :
            (a[1] # b[1] /\ a[2] = b[2]) => (a[3] = "r" /\ b[3] = "r")
    /\ \A w \in DOMAIN scratch0 :
            (GroupItems(w) # {} /\ \A g \in GroupItems(w) :
                                     ipc[g] = "barrier" /\ loop_i[g] >= 1) =>
                \A c \in 0..(work_group_size - 1) :
                    local_mem[w][c] =
                        IntSum(scratch0[w], c,
                               c + Gathered(c, loop_i[w * work_group_size]))

\* two work-items of one group have both written local_mem within one stride
C14_Witness ==
    \E g \in Items :
        /\ loop_i[g] >= 1
        /\ \E a, b \in accLog[GroupId(g)] :
                a[1] # b[1] /\ a[3] = "w" /\ b[3] = "w"

\* C15: the host is past the completion wait (and so reads the buffer) only
\* when every work-item of the submitted sweep has finished, and it submits
\* only when no sweep is incomplete.
C15_HostReadAfterCompletion ==
    pc \in {"submit", "update", "read", "done"} =>
        \A g \in Items : ipc[g] = "done"

\* the result has been read after a sweep of at least two groups
C15_Witness ==
    pc = "done" /\ work_group_count >= 2 /\ Cardinality(written) >= 2

\* C16: unless a failure aborts it, the driver eventually performs the final
\* host read with the active prefix length reduced to 1.
C16_DriverConverges ==
    <>(pc = "aborted" \/ (pc = "done" /\ iterationCount = 1))

\* log2 of a power of two
RECURSIVE Log2(_)
Log2(n) == IF n <= 1 THEN 0 ELSE 1 + Log2(n \div 2)

\* some work-item of the running sweep can take a step
KernelStep ==
    \/ \E g \in Items : PairLoad(g)
    \/ \E w \in 0..(work_group_count - 1) : Barrier(w)
    \/ \E g \in Items : Stride(g)
    \/ \E g \in Items : WriteBack(g)

\* C17: the work-items of a group have always passed the same number of
\* barriers, a work-item past the stride loop has passed log2(G)+1 of them,
\* and while the sweep is incomplete some work-item can step (none is stuck
\* at a barrier).
C17_UniformBarriers ==
    /\ \A g, h \in Items : GroupId(g) = GroupId(h) => barriers[g] = barriers[h]
    /\ \A g \in Items :
            ipc[g] \in {"write", "done"} => barriers[g] = Log2(work_group_size) + 1
    /\ (pc = "wait" /\ \E g \in Items : ipc[g] # "done") => ENABLED KernelStep

\* a work-item whose guards 2g < L and index < G all failed has finished
C17_Witness ==
    \E g \in Items :
        /\ work_group_size = 4
        /\ LocalId(g) = 3
        /\ 2 * g >= iterationCount
        /\ ipc[g] = "done"
        /\ barriers[g] = 3

\* C18: every local_mem access of the kernel is by a local id and at a cell
\* inside the accessor's range [0, G).
C18_ScratchInBounds ==
    \A w \in DOMAIN accLog : \A a \in accLog[w] :
        a[1] \in DOMAIN local_mem[w] /\ a[2] \in DOMAIN local_mem[w]

\* a stride has read the last cell of local_mem
C18_Witness ==
    \E g \in Items :
        /\ work_group_size >= 2
        /\ loop_i[g] >= 1
        /\ <<LocalId(g), work_group_size - 1, "r">> \in accLog[GroupId(g)]

\* C19: a sweep with W groups leaves every buffer cell B[j], W <= j < N, as it
\* was when the sweep was launched.
C19_SweepFrame ==
    launches # <<>> =>
        \A j \in work_group_count..(N - 1) : input_buf[j] = buf0[j]

\* a completed sweep of several groups that changed the front of the buffer
C19_Witness ==
    /\ pc = "done"
    /\ work_group_count >= 2
    /\ N > work_group_count
    /\ \E j \in 0..(work_group_count - 1) : input_buf[j] # buf0[j]

====
